---- MODULE Spec2Model ----
(***************************************************************************)
(* rs-lambda (src/src/lib.rs): lexer, recursive-descent parser, named      *)
(* lambda terms with their free/bound variable analyses and rendering,     *)
(* and the De Bruijn converter (levels and indices).                       *)
(*                                                                         *)
(* A character is a one-element string; the binder glyph U+03BB is written *)
(* "lam", the null character "NUL".  A text (String) is a sequence of      *)
(* characters.                                                             *)
(***************************************************************************)
EXTENDS Integers, Sequences, FiniteSets, TLC

VARIABLES
    code,             \* the source text, as far as it is fixed
    closed,           \* TRUE when code is the whole text
    lexer,            \* Lexer: chars consumed from code (pos) and the identifier buffer
    pulled,           \* every result Lexer::next has returned, with the position reached
    paren_index,      \* Parser::paren_index
    stack,            \* the active calls of parse_term / parse_abstraction, innermost last
    ret,              \* the value the innermost finished call hands its caller
    result,           \* what Parser::parse returned
    lterm,            \* the LambdaTerm handed to the analyses, the renderer, the converter
    applied,          \* names of the operations already run
    free,             \* result of LambdaTerm::free_variables
    bound,            \* result of LambdaTerm::bound_variables
    levels,           \* a DBLevels value (the DBTerm it wraps)
    indices,          \* a DBIndices value (the DBTerm it wraps)
    levels2,          \* the DBLevels value converted back from indices
    overflow_checks,  \* build profile: TRUE = arithmetic overflow panics
    previous,         \* what parse returned for the text that code was derived from
    levels_free       \* result of DBTerm::free_variables on the term inside levels

lexvars == <<code, closed, lexer, pulled>>

parservars == <<paren_index, stack, ret, result>>

termvars ==
    <<lterm, applied, free, bound, levels, indices, levels2, overflow_checks, previous,
      levels_free>>

vars == <<lexvars, parservars, termvars>>

(***************************************************************************)
(* Bounds of the model.                                                    *)
(***************************************************************************)
MaxNodes == 5        \* LambdaTerms handed to the analyses have at most this many nodes
MaxDBNodes == 4      \* hand-built DBTerms have at most this many nodes
MaxNumber == 2       \* hand-built DBTerms store numbers 0..MaxNumber
MaxTextLen == 4      \* texts handed to the lexer alone have at most this many characters
MaxTokens == 6       \* texts revealed to the parser piece by piece hold at most this many tokens
MaxWFTokens == 8     \* well-formed texts handed to the parser hold at most this many tokens
MaxNoneCalls == 2     \* Lexer::next is called until it has returned None this many times
MaxFairTokens == 4    \* texts handed whole to the running parser hold at most this many tokens

Names == {<<"x">>, <<"y">>}  \* identifier names (Strings) of the enumerated terms

(***************************************************************************)
(* LambdaTerm (lib.rs 66-76) and DBTerm (lib.rs 270-278).                  *)
(***************************************************************************)
Variable(id) == [tag |-> "Variable", id |-> id]

Application(function, argument) ==
    [tag |-> "Application", function |-> function, argument |-> argument]

Abstraction(bound_variable, return_term) ==
    [tag |-> "Abstraction", bound_variable |-> bound_variable, return_term |-> return_term]

DBVariable(n) == [tag |-> "Variable", n |-> n]

DBFreeVariable(id) == [tag |-> "FreeVariable", id |-> id]

DBApplication(function, argument) ==
    [tag |-> "Application", function |-> function, argument |-> argument]

DBAbstraction(return_term) == [tag |-> "Abstraction", return_term |-> return_term]

\* no value (Option::None, a moved-out or not yet computed value)
None == [tag |-> "None"]

\* the conversion did not return: the thread panicked
Panic == [tag |-> "Panic"]

(***************************************************************************)
(* LambdaTerm::free_variables (lib.rs 81-103).  One HashSet is threaded    *)
(* through the whole traversal by mutable reference.                       *)
(***************************************************************************)
RECURSIVE free_variables_mut(_, _)
free_variables_mut(term, set) ==
    CASE term.tag = "Variable" -> set \cup {term.id}
      [] term.tag = "Application" ->
            free_variables_mut(term.argument, free_variables_mut(term.function, set))
      [] term.tag = "Abstraction" ->
            free_variables_mut(term.return_term, set) \ {term.bound_variable}

free_variables(term) == free_variables_mut(term, {})

(***************************************************************************)
(* LambdaTerm::bound_variables (lib.rs 105-125).                           *)
(***************************************************************************)
\* mutant: a binder is recorded only when its body mentions the name
RECURSIVE bound_variables_mut_referenced_only(_, _)
bound_variables_mut_referenced_only(term, set) ==
    CASE term.tag = "Variable" -> set
      [] term.tag = "Application" ->
            bound_variables_mut_referenced_only(term.argument,
                bound_variables_mut_referenced_only(term.function, set))
      [] term.tag = "Abstraction" ->
            bound_variables_mut_referenced_only(term.return_term, set)
            \cup ({term.bound_variable} \cap free_variables_mut(term.return_term, {}))

RECURSIVE bound_variables_mut(_, _)
bound_variables_mut(term, set) ==
    CASE term.tag = "Variable" -> set
      [] term.tag = "Application" ->
            bound_variables_mut(term.argument, bound_variables_mut(term.function, set))
      [] term.tag = "Abstraction" ->
            bound_variables_mut(term.return_term, set) \cup {term.bound_variable}

bound_variables(term) == bound_variables_mut(term, {})

(***************************************************************************)
(* DBTerm::free_variables (lib.rs 285-302).                                *)
(***************************************************************************)
RECURSIVE db_free_variables_mut(_, _)
db_free_variables_mut(term, set) ==
    CASE term.tag = "FreeVariable" -> set \cup {term.id}
      [] term.tag = "Variable" -> set
      [] term.tag = "Abstraction" -> db_free_variables_mut(term.return_term, set)
      [] term.tag = "Application" ->
            db_free_variables_mut(term.argument, db_free_variables_mut(term.function, set))

db_free_variables(term) == db_free_variables_mut(term, {})

(***************************************************************************)
(* usize arithmetic.  A usize is modelled by its two's-complement          *)
(* representative: n >= 0 is the value n, n < 0 stands for n + 2^64.       *)
(* a - b + 1 is evaluated as (a - b) + 1; with overflow checks (the dev    *)
(* profile) an overflowing step panics, without them (release) it wraps.   *)
(***************************************************************************)
usize_lt(a, b) == IF (a >= 0) = (b >= 0) THEN a < b ELSE a >= 0

usize_sub_overflows(a, b) == usize_lt(a, b)

usize_add_overflows(a, b) == (a < 0) /\ (b > 0) /\ (a + b >= 0)

\* abstraction_depth - n + 1 (lib.rs 331, 351): Panic or the new number
depth_minus_plus_one(abstraction_depth, n) ==
    IF overflow_checks /\ (usize_sub_overflows(abstraction_depth, n)
                           \/ usize_add_overflows(abstraction_depth - n, 1))
    THEN Panic
    ELSE DBVariable(abstraction_depth - n + 1)

\* a panic in a sub-term unwinds through the constructor around it
Strict1(r, built) == IF r = Panic THEN Panic ELSE built

Strict2(r1, r2, built) == IF r1 = Panic \/ r2 = Panic THEN Panic ELSE built

(***************************************************************************)
(* impl From<DBLevels> for DBIndices (lib.rs 326-344).                     *)
(***************************************************************************)
RECURSIVE reindex_levels_no_plus_one(_, _)
reindex_levels_no_plus_one(term, abstraction_depth) ==
    CASE term.tag = "FreeVariable" -> DBFreeVariable(term.id)
      [] term.tag = "Variable" ->
            \* mutant: off by one
            IF overflow_checks /\ usize_sub_overflows(abstraction_depth, term.n)
            THEN Panic ELSE DBVariable(abstraction_depth - term.n)
      [] term.tag = "Application" ->
            LET f == reindex_levels_no_plus_one(term.function, abstraction_depth)
                a == reindex_levels_no_plus_one(term.argument, abstraction_depth)
            IN  Strict2(f, a, DBApplication(f, a))
      [] term.tag = "Abstraction" ->
            LET r == reindex_levels_no_plus_one(term.return_term, abstraction_depth + 1)
            IN  Strict1(r, DBAbstraction(r))

RECURSIVE reindex_levels(_, _)
reindex_levels(term, abstraction_depth) ==
    CASE term.tag = "FreeVariable" -> DBFreeVariable(term.id)
      [] term.tag = "Variable" -> depth_minus_plus_one(abstraction_depth, term.n)
      [] term.tag = "Application" ->
            LET f == reindex_levels(term.function, abstraction_depth)
                a == reindex_levels(term.argument, abstraction_depth)
            IN  Strict2(f, a, DBApplication(f, a))
      [] term.tag = "Abstraction" ->
            LET r == reindex_levels(term.return_term, abstraction_depth + 1)
            IN  Strict1(r, DBAbstraction(r))

DBIndices_from_DBLevels(term) == reindex_levels(term, 0)

(***************************************************************************)
(* impl From<DBIndices> for DBLevels (lib.rs 346-364).                     *)
(***************************************************************************)
RECURSIVE reindex_indices(_, _)
reindex_indices(term, abstraction_depth) ==
    CASE term.tag = "FreeVariable" -> DBFreeVariable(term.id)
      [] term.tag = "Variable" -> depth_minus_plus_one(abstraction_depth, term.n)
      [] term.tag = "Application" ->
            LET f == reindex_indices(term.function, abstraction_depth)
                a == reindex_indices(term.argument, abstraction_depth)
            IN  Strict2(f, a, DBApplication(f, a))
      [] term.tag = "Abstraction" ->
            LET r == reindex_indices(term.return_term, abstraction_depth + 1)
            IN  Strict1(r, DBAbstraction(r))

DBLevels_from_DBIndices(term) == reindex_indices(term, 0)

(***************************************************************************)
(* impl From<LambdaTerm> for DBLevels (lib.rs 382-420).  level_map is a    *)
(* HashMap<String, usize>: a function on the set of its keys.  convert     *)
(* yields the DBTerm and the map as the call leaves it.                    *)
(***************************************************************************)
map_insert(level_map, k, v) ==
    [key \in DOMAIN level_map \cup {k} |-> IF key = k THEN v ELSE level_map[key]]

map_remove(level_map, k) == [key \in DOMAIN level_map \ {k} |-> level_map[key]]

EmptyMap == [key \in {} |-> 0]

RECURSIVE convert_no_restore(_, _, _)
convert_no_restore(term, abstraction_depth, level_map) ==
    CASE term.tag = "Abstraction" ->
            LET new_depth == abstraction_depth + 1
                inner == convert_no_restore(term.return_term, new_depth,
                                 map_insert(level_map, term.bound_variable, new_depth))
            IN  \* mutant: the shadowed binding is dropped instead of restored
                [term |-> DBAbstraction(inner.term),
                 level_map |-> map_remove(inner.level_map, term.bound_variable)]
      [] term.tag = "Application" ->
            LET f == convert_no_restore(term.function, abstraction_depth, level_map)
                a == convert_no_restore(term.argument, abstraction_depth, f.level_map)
            IN  [term |-> DBApplication(f.term, a.term), level_map |-> a.level_map]
      [] term.tag = "Variable" ->
            [term |-> IF term.id \in DOMAIN level_map
                      THEN DBVariable(level_map[term.id])
                      ELSE DBFreeVariable(term.id),
             level_map |-> level_map]

RECURSIVE convert(_, _, _)
convert(term, abstraction_depth, level_map) ==
    CASE term.tag = "Abstraction" ->
            LET new_depth == abstraction_depth + 1
                had_old == term.bound_variable \in DOMAIN level_map
                inner == convert(term.return_term, new_depth,
                                 map_insert(level_map, term.bound_variable, new_depth))
            IN  [term |-> DBAbstraction(inner.term),
                 level_map |->
                    IF had_old
                    THEN map_insert(inner.level_map, term.bound_variable,
                                    level_map[term.bound_variable])
                    ELSE map_remove(inner.level_map, term.bound_variable)]
      [] term.tag = "Application" ->
            LET f == convert(term.function, abstraction_depth, level_map)
                a == convert(term.argument, abstraction_depth, f.level_map)
            IN  [term |-> DBApplication(f.term, a.term), level_map |-> a.level_map]
      [] term.tag = "Variable" ->
            [term |-> IF term.id \in DOMAIN level_map
                      THEN DBVariable(level_map[term.id])
                      ELSE DBFreeVariable(term.id),
             level_map |-> level_map]

\* mutant: the depth of the root counted as 1
DBLevels_from_LambdaTerm_root_at_one(lambda) == convert(lambda, 1, EmptyMap).term

DBLevels_from_LambdaTerm(lambda) == convert(lambda, 0, EmptyMap).term

\* impl From<LambdaTerm> for DBIndices (lib.rs 422-426)
DBIndices_from_LambdaTerm(lambda) == DBIndices_from_DBLevels(DBLevels_from_LambdaTerm(lambda))

(***************************************************************************)
(* Token (lib.rs 2-9).                                                     *)
(***************************************************************************)
LParen == [tag |-> "LParen"]

RParen == [tag |-> "RParen"]

Lambda == [tag |-> "Lambda"]

Dot == [tag |-> "Dot"]

Identifier(id) == [tag |-> "Identifier", id |-> id]

Eof == [tag |-> "Eof"]

(***************************************************************************)
(* Characters.  char::is_alphanumeric holds of letters and digits, the     *)
(* Greek letter U+03BB among them, and not of '_'.                         *)
(***************************************************************************)
Letters == {"x", "y", "a", "lam"}

Digits == {"1"}

is_alphanumeric(ch) == ch \in Letters \cup Digits

(***************************************************************************)
(* Lexer (lib.rs 14-26) and Lexer::next (lib.rs 31-56).  chars_peekable    *)
(* is the text from position pos + 1 on.  lexer_next runs the loop of      *)
(* next from (pos, buffer) and yields the token (None when the characters  *)
(* are exhausted), the lexer state after the call, and saw_end: whether    *)
(* chars_peekable.next() or .peek() reached the end of the text.           *)
(***************************************************************************)
NewLexer == [pos |-> 0, buffer |-> <<>>]

Emit(token, pos, buffer, saw_end) ==
    [token |-> token, pos |-> pos, buffer |-> buffer, saw_end |-> saw_end]

\* mutant: the lookahead without the test for the binder glyph
identifier_continues_through_lambda(text, pos) ==
    /\ pos < Len(text)
    /\ is_alphanumeric(text[pos + 1])

\* the lookahead of lib.rs 43-44: does the identifier go on?
identifier_continues(text, pos) ==
    /\ pos < Len(text)
    /\ is_alphanumeric(text[pos + 1])
    /\ text[pos + 1] # "lam"

RECURSIVE lexer_next(_, _, _)
lexer_next(text, pos, buffer) ==
    IF pos >= Len(text)
    THEN Emit(None, pos, buffer, TRUE)
    ELSE LET ch == text[pos + 1]
         IN  CASE ch = "(" -> Emit(LParen, pos + 1, buffer, FALSE)
               [] ch = ")" -> Emit(RParen, pos + 1, buffer, FALSE)
               [] ch \in {"lam", "\\"} -> Emit(Lambda, pos + 1, buffer, FALSE)
               [] ch = "." -> Emit(Dot, pos + 1, buffer, FALSE)
               [] ch = "NUL" -> Emit(Eof, pos + 1, buffer, FALSE)
               [] OTHER ->
                    IF is_alphanumeric(ch) \/ ch = "_"
                    THEN IF identifier_continues(text, pos + 1)
                         THEN lexer_next(text, pos + 1, Append(buffer, ch))
                         ELSE Emit(Identifier(Append(buffer, ch)), pos + 1, <<>>,
                                   pos + 1 >= Len(text))
                    ELSE lexer_next(text, pos + 1, buffer)

\* self.lexer.next() on the text as far as it is fixed
Pull == lexer_next(code, lexer.pos, lexer.buffer)

\* the call can be answered from the fixed part of the text
CanPull == closed \/ ~Pull.saw_end

\* mutant: the token is looked at and left in the lexer
LexerAfterPeek == lexer

LexerAfterPull == [pos |-> Pull.pos, buffer |-> Pull.buffer]

PulledAfterPull == Append(pulled, [token |-> Pull.token, pos |-> Pull.pos])

(***************************************************************************)
(* impl fmt::Display for LambdaTerm (lib.rs 130-151): the text written.    *)
(***************************************************************************)
RECURSIVE fmt_bare_function(_)
fmt_bare_function(term) ==
    CASE term.tag = "Variable" -> term.id
      [] term.tag = "Application" ->
            \* mutant: an Abstraction in function position is not parenthesized
            (fmt_bare_function(term.function) \o <<" ">>)
            \o (IF term.argument.tag = "Variable"
                THEN fmt_bare_function(term.argument)
                ELSE <<"(">> \o fmt_bare_function(term.argument) \o <<")">>)
      [] term.tag = "Abstraction" ->
            <<"lam">> \o term.bound_variable \o <<".", " ">>
                \o fmt_bare_function(term.return_term)

RECURSIVE fmt(_)
fmt(term) ==
    CASE term.tag = "Variable" -> term.id
      [] term.tag = "Application" ->
            (IF term.function.tag = "Abstraction"
             THEN <<"(">> \o fmt(term.function) \o <<")", " ">>
             ELSE fmt(term.function) \o <<" ">>)
            \o (IF term.argument.tag = "Variable"
                THEN fmt(term.argument)
                ELSE <<"(">> \o fmt(term.argument) \o <<")">>)
      [] term.tag = "Abstraction" ->
            <<"lam">> \o term.bound_variable \o <<".", " ">> \o fmt(term.return_term)

(***************************************************************************)
(* ParserError (lib.rs 154-164) and Result<LambdaTerm, ParserError>.       *)
(***************************************************************************)
PrematureEnd == [kind |-> "PrematureEnd"]

ParenOutOfBounds(paren_index_bound, index) ==
    [kind |-> "ParenOutOfBounds", paren_index_bound |-> paren_index_bound,
     paren_index |-> index]

ExpectedIdentifierGot(token) == [kind |-> "ExpectedIdentifierGot", got |-> token]

ExpectedGot(expected, token) ==
    [kind |-> "ExpectedGot", expected |-> expected, got |-> token]

Unexpected(token) == [kind |-> "Unexpected", got |-> token]

UnmatchedParens(index) == [kind |-> "UnmatchedParens", paren_index |-> index]

Ok(term) == [tag |-> "Ok", term |-> term]

Err(error) == [tag |-> "Err", err |-> error]

(***************************************************************************)
(* Parser (lib.rs 166-177).  A frame of stack is one active call: fn and   *)
(* its paren_index_bound, the point the call has reached (at), and its     *)
(* locals (term of parse_term, bound_variable of parse_abstraction).       *)
(*   parse_term:        start -> head -> loop <-> arg                      *)
(*   parse_abstraction: start -> dot -> body                               *)
(***************************************************************************)
TermFrame(paren_index_bound) ==
    [fn |-> "parse_term", paren_index_bound |-> paren_index_bound, at |-> "start",
     term |-> None, bound_variable |-> <<>>]

AbstractionFrame(paren_index_bound) ==
    [fn |-> "parse_abstraction", paren_index_bound |-> paren_index_bound, at |-> "start",
     term |-> None, bound_variable |-> <<>>]

Top == stack[Len(stack)]

Popped == SubSeq(stack, 1, Len(stack) - 1)

WithTop(frame) == [stack EXCEPT ![Len(stack)] = frame]

\* mutant: the comparison of check_bounds made non-strict
check_bounds_not_above(paren_index_bound) ==
    IF paren_index <= paren_index_bound
    THEN Err(ParenOutOfBounds(paren_index_bound, paren_index))
    ELSE Ok(None)

\* Parser::check_bounds (lib.rs 258-267)
check_bounds(paren_index_bound) ==
    IF paren_index < paren_index_bound
    THEN Err(ParenOutOfBounds(paren_index_bound, paren_index))
    ELSE Ok(None)

\* the while condition of parse_term (lib.rs 204)
loop_goes_on_at_any_depth(index, paren_index_bound) == TRUE

loop_goes_on_strict(index, paren_index_bound) == index > paren_index_bound

loop_goes_on_one_below(index, paren_index_bound) == index >= paren_index_bound - 1

loop_goes_on(index, paren_index_bound) == index >= paren_index_bound

\* folding one more juxtaposed term onto the head (lib.rs 209-212, 218-221, 224-227)
fold_right(term, argument) ==
    IF term.tag = "Application"
    THEN Application(term.function, Application(term.argument, argument))
    ELSE Application(term, argument)

fold(term, argument) == Application(term, argument)

\* the end of Parser::parse (lib.rs 181-185)
parse_result_unchecked(root_term, index) == Ok(root_term)

parse_result(root_term, index) ==
    IF index # 0 THEN Err(UnmatchedParens(index)) ELSE Ok(root_term)

\* Parser::parse from the return of parse_term on: `?`, then the check (lib.rs 180-185)
parse_returns_checks_parens_first(returned, index) ==
    IF index # 0 THEN Err(UnmatchedParens(index)) ELSE returned

parse_returns(returned, index) ==
    IF returned.tag = "Err" THEN returned ELSE parse_result(returned.term, index)

\* the error of parse_abstraction where the bound variable is due (lib.rs 252, 254)
expected_identifier_got_end_marker_is_end(token) ==
    IF token.tag \in {"None", "Eof"} THEN PrematureEnd ELSE ExpectedIdentifierGot(token)

expected_identifier_got(token) ==
    IF token = None THEN PrematureEnd ELSE ExpectedIdentifierGot(token)

\* the results of Lexer::next that end the loop of parse_term (lib.rs 229, 232)
loop_ends_at_end_marker(token) == token.tag \in {"None", "Eof"}

loop_ends_at(token) == token = None

\* the error for a token that cannot start a term, or for none (lib.rs 193-194, 200, 202)
term_start_error_always_premature(token) == PrematureEnd

term_start_error(token) ==
    IF token.tag \in {"Dot", "RParen"} THEN Unexpected(token) ELSE PrematureEnd

\* the effect of a ')' read in the loop of parse_term (lib.rs 214-216)
after_rparen_kept(index) == index

after_rparen(index) == index - 1

(***************************************************************************)
(* Parser::parse (lib.rs 179-186): the call of parse_term, and the check   *)
(* of paren_index when it has returned.                                    *)
(***************************************************************************)
ParseCall ==
    /\ stack = <<>>
    /\ ret = None
    /\ result = None
    /\ stack' = <<TermFrame(paren_index)>>
    /\ UNCHANGED <<lexvars, paren_index, ret, result, termvars>>

ParseReturn ==
    /\ stack = <<>>
    /\ ret # None
    /\ result = None
    /\ result' = parse_returns(ret, paren_index)
    /\ UNCHANGED <<lexvars, paren_index, stack, ret, termvars>>

(***************************************************************************)
(* Parser::parse_term (lib.rs 188-236).                                    *)
(***************************************************************************)
\* lib.rs 189-203: the bounds check and the token that starts the term
TermStart ==
    /\ stack # <<>>
    /\ Top.fn = "parse_term"
    /\ Top.at = "start"
    /\ IF check_bounds(Top.paren_index_bound).tag = "Err"
       THEN /\ stack' = Popped
            /\ ret' = check_bounds(Top.paren_index_bound)
            /\ UNCHANGED <<lexvars, paren_index>>
       ELSE /\ CanPull
            /\ lexer' = LexerAfterPull
            /\ pulled' = PulledAfterPull
            /\ UNCHANGED <<code, closed>>
            /\ LET token == Pull.token
               IN  CASE token.tag = "Lambda" ->
                          /\ stack' = Append(WithTop([Top EXCEPT !.at = "head"]),
                                             AbstractionFrame(paren_index))
                          /\ UNCHANGED <<paren_index, ret>>
                     [] token.tag = "LParen" ->
                          /\ paren_index' = paren_index + 1
                          /\ stack' = Append(WithTop([Top EXCEPT !.at = "head"]),
                                             TermFrame(paren_index + 1))
                          /\ UNCHANGED ret
                     [] token.tag = "Identifier" ->
                          /\ stack' = WithTop([Top EXCEPT !.at = "loop",
                                                          !.term = Variable(token.id)])
                          /\ UNCHANGED <<paren_index, ret>>
                     [] token.tag \in {"Dot", "RParen", "Eof", "None"} ->
                          /\ stack' = Popped
                          /\ ret' = Err(term_start_error(token))
                          /\ UNCHANGED paren_index
    /\ UNCHANGED <<result, termvars>>

\* lib.rs 203, 211, 220: the head or the argument has been parsed (or has failed: `?`)
TermResume ==
    /\ stack # <<>>
    /\ Top.fn = "parse_term"
    /\ Top.at \in {"head", "arg"}
    /\ ret # None
    /\ IF ret.tag = "Err"
       THEN /\ stack' = Popped
            /\ UNCHANGED ret
       ELSE /\ stack' = WithTop([Top EXCEPT
                            !.at = "loop",
                            !.term = IF Top.at = "head" THEN ret.term
                                     ELSE fold(Top.term, ret.term)])
            /\ ret' = None
    /\ UNCHANGED <<lexvars, paren_index, result, termvars>>

\* lib.rs 204-235: one test of the while condition and, when it holds, one iteration
TermLoop ==
    /\ stack # <<>>
    /\ Top.fn = "parse_term"
    /\ Top.at = "loop"
    /\ IF ~loop_goes_on(paren_index, Top.paren_index_bound)
       THEN /\ stack' = Popped
            /\ ret' = Ok(Top.term)
            /\ UNCHANGED <<lexvars, paren_index>>
       ELSE /\ CanPull
            /\ lexer' = LexerAfterPull
            /\ pulled' = PulledAfterPull
            /\ UNCHANGED <<code, closed>>
            /\ LET token == Pull.token
               IN  CASE token.tag = "LParen" ->
                          /\ paren_index' = paren_index + 1
                          /\ stack' = Append(WithTop([Top EXCEPT !.at = "arg"]),
                                             TermFrame(paren_index + 1))
                          /\ UNCHANGED ret
                     [] token.tag = "RParen" ->
                          /\ paren_index' = after_rparen(paren_index)
                          /\ UNCHANGED <<stack, ret>>
                     [] token.tag = "Lambda" ->
                          /\ stack' = Append(WithTop([Top EXCEPT !.at = "arg"]),
                                             AbstractionFrame(paren_index))
                          /\ UNCHANGED <<paren_index, ret>>
                     [] token.tag = "Identifier" ->
                          /\ stack' = WithTop([Top EXCEPT
                                          !.term = fold(Top.term, Variable(token.id))])
                          /\ UNCHANGED <<paren_index, ret>>
                     [] token.tag = "Eof" /\ ~loop_ends_at(token) ->
                          UNCHANGED <<paren_index, stack, ret>>
                     [] token.tag = "Dot" ->
                          /\ stack' = Popped
                          /\ ret' = Err(Unexpected(Dot))
                          /\ UNCHANGED paren_index
                     [] loop_ends_at(token) ->
                          /\ stack' = Popped
                          /\ ret' = Ok(Top.term)
                          /\ UNCHANGED paren_index
    /\ UNCHANGED <<result, termvars>>

(***************************************************************************)
(* Parser::parse_abstraction (lib.rs 238-256).                             *)
(***************************************************************************)
\* lib.rs 239-241, 252, 254: the bounds check and the bound variable
AbstractionStart ==
    /\ stack # <<>>
    /\ Top.fn = "parse_abstraction"
    /\ Top.at = "start"
    /\ IF check_bounds(Top.paren_index_bound).tag = "Err"
       THEN /\ stack' = Popped
            /\ ret' = check_bounds(Top.paren_index_bound)
            /\ UNCHANGED lexvars
       ELSE /\ CanPull
            /\ lexer' = LexerAfterPull
            /\ pulled' = PulledAfterPull
            /\ UNCHANGED <<code, closed>>
            /\ LET token == Pull.token
               IN  CASE token.tag = "Identifier" ->
                          /\ stack' = WithTop([Top EXCEPT !.at = "dot",
                                                          !.bound_variable = token.id])
                          /\ UNCHANGED ret
                     [] OTHER ->
                          /\ stack' = Popped
                          /\ ret' = Err(expected_identifier_got(token))
    /\ UNCHANGED <<paren_index, result, termvars>>

\* lib.rs 242-250: the dot, and the call that parses the body
AbstractionDot ==
    /\ stack # <<>>
    /\ Top.fn = "parse_abstraction"
    /\ Top.at = "dot"
    /\ CanPull
    /\ lexer' = LexerAfterPull
    /\ pulled' = PulledAfterPull
    /\ LET token == Pull.token
       IN  CASE token.tag = "Dot" ->
                  /\ stack' = Append(WithTop([Top EXCEPT !.at = "body"]),
                                     TermFrame(paren_index))
                  /\ UNCHANGED ret
             [] token.tag = "None" ->
                  /\ stack' = Popped
                  /\ ret' = Err(PrematureEnd)
             [] OTHER ->
                  /\ stack' = Popped
                  /\ ret' = Err(ExpectedGot(Dot, token))
    /\ UNCHANGED <<code, closed, paren_index, result, termvars>>

\* lib.rs 244-247: the body has been parsed (or has failed: `?`)
AbstractionResume ==
    /\ stack # <<>>
    /\ Top.fn = "parse_abstraction"
    /\ Top.at = "body"
    /\ ret # None
    /\ stack' = Popped
    /\ ret' = IF ret.tag = "Err" THEN ret
              ELSE Ok(Abstraction(Top.bound_variable, ret.term))
    /\ UNCHANGED <<lexvars, paren_index, result, termvars>>

(***************************************************************************)
(* Lexer::next called directly on a Lexer (lib.rs 31-56), as a consumer of *)
(* the iterator does.                                                      *)
(***************************************************************************)
NoneCalls == Cardinality({i \in 1..Len(pulled) : pulled[i].token = None})

LexerNext ==
    /\ closed
    /\ NoneCalls < MaxNoneCalls
    /\ lexer' = LexerAfterPull
    /\ pulled' = PulledAfterPull
    /\ UNCHANGED <<code, closed, parservars, termvars>>

(***************************************************************************)
(* The text is fixed before the lexer starts.  The model fixes it piece    *)
(* by piece, and only when the lexer is about to read beyond the part      *)
(* fixed so far (or the parser has returned without reading on): texts     *)
(* with the same consumed part share their states.  A piece is the         *)
(* spelling of one token; an identifier is spelled with a space before it. *)
(***************************************************************************)
Spelling(token) ==
    CASE token.tag = "LParen" -> <<"(">>
      [] token.tag = "RParen" -> <<")">>
      [] token.tag = "Lambda" -> <<"lam">>
      [] token.tag = "Dot" -> <<".">>
      [] token.tag = "Eof" -> <<"NUL">>
      [] token.tag = "Identifier" -> <<" ">> \o token.id

RECURSIVE Spell(_)
Spell(tokens) ==
    IF tokens = <<>> THEN <<>> ELSE Spelling(Head(tokens)) \o Spell(Tail(tokens))

PieceIdentifiers == {Identifier(<<"x">>), Identifier(<<"_", "y">>)}

PieceTokens == {LParen, RParen, Lambda, Dot, Eof} \cup PieceIdentifiers

\* the tokens Lexer::next yields for text, up to the first None
RECURSIVE TokensFrom(_, _, _)
TokensFrom(text, pos, buffer) ==
    LET r == lexer_next(text, pos, buffer)
    IN  IF r.token = None THEN <<>> ELSE <<r.token>> \o TokensFrom(text, r.pos, r.buffer)

Tokens(text) == TokensFrom(text, 0, <<>>)

\* a call of Lexer::next is due and cannot be answered yet
ParserWaits ==
    /\ stack # <<>>
    /\ ret = None
    /\ \/ Top.at = "start" /\ check_bounds(Top.paren_index_bound).tag = "Ok"
       \/ Top.at = "loop" /\ loop_goes_on(paren_index, Top.paren_index_bound)
       \/ Top.at = "dot"

MayExtend ==
    /\ ~closed
    /\ Pull.saw_end
    /\ ParserWaits \/ result # None

Feed ==
    /\ MayExtend
    /\ Len(Tokens(code)) < MaxTokens
    /\ \E token \in PieceTokens : code' = code \o Spelling(token)
    /\ UNCHANGED <<closed, lexer, pulled, parservars, termvars>>

Close ==
    /\ MayExtend
    /\ closed' = TRUE
    /\ UNCHANGED <<code, lexer, pulled, parservars, termvars>>

(***************************************************************************)
(* Rendering a parsed term and parsing the rendered text again:            *)
(* Parser::new(Lexer::new(&term.to_string())).                             *)
(***************************************************************************)
Render ==
    /\ result # None
    /\ result.tag = "Ok"
    /\ closed
    /\ "render" \notin applied
    /\ lterm' = result.term
    /\ applied' = applied \cup {"render"}
    /\ code' = fmt(result.term)
    /\ closed' = TRUE
    /\ lexer' = NewLexer
    /\ pulled' = <<>>
    /\ paren_index' = 0
    /\ stack' = <<>>
    /\ ret' = None
    /\ result' = None
    /\ UNCHANGED <<free, bound, levels, indices, levels2, overflow_checks, previous, levels_free>>

(***************************************************************************)
(* Parsing a text again without its end markers, when each of them stands  *)
(* where parse_term is in its loop: after a ')', after an identifier that  *)
(* is not the bound variable of an abstraction, or after another end       *)
(* marker.                                                                 *)
(***************************************************************************)
AtContinuation(tokens, i) ==
    IF i <= 1 THEN FALSE
    ELSE IF tokens[i - 1] \in {RParen, Eof} THEN TRUE
    ELSE IF tokens[i - 1].tag # "Identifier" THEN FALSE
    ELSE IF i = 2 THEN TRUE
    ELSE tokens[i - 2] # Lambda

EndMarkers(tokens) == {i \in 1..Len(tokens) : tokens[i] = Eof}

RECURSIVE WithoutEndMarkers(_)
WithoutEndMarkers(tokens) ==
    IF tokens = <<>> THEN <<>>
    ELSE (IF Head(tokens) = Eof THEN <<>> ELSE <<Head(tokens)>>)
         \o WithoutEndMarkers(Tail(tokens))

StripEndMarkers ==
    /\ result # None
    /\ closed
    /\ applied = {}
    /\ LET tokens == Tokens(code)
       IN  /\ EndMarkers(tokens) # {}
           /\ \A i \in EndMarkers(tokens) : AtContinuation(tokens, i)
           /\ code' = Spell(WithoutEndMarkers(tokens))
    /\ previous' = result
    /\ applied' = {"strip"}
    /\ closed' = TRUE
    /\ lexer' = NewLexer
    /\ pulled' = <<>>
    /\ paren_index' = 0
    /\ stack' = <<>>
    /\ ret' = None
    /\ result' = None
    /\ UNCHANGED <<lterm, free, bound, levels, indices, levels2, overflow_checks, levels_free>>

(***************************************************************************)
(* The enumerated inputs: every LambdaTerm over Names with at most         *)
(* MaxNodes nodes, every DBTerm with at most MaxDBNodes nodes.             *)
(***************************************************************************)
RECURSIVE LambdaTermsOfSize(_)
LambdaTermsOfSize(n) ==
    IF n <= 0 THEN {}
    ELSE IF n = 1 THEN {Variable(id) : id \in Names}
    ELSE LET smaller == [k \in 1..(n - 1) |-> LambdaTermsOfSize(k)]
         IN  {Abstraction(b, r) : b \in Names, r \in smaller[n - 1]}
             \cup UNION {{Application(f, a) : f \in smaller[k], a \in smaller[n - 1 - k]}
                         : k \in 1..(n - 2)}

LambdaTerms == UNION {LambdaTermsOfSize(n) : n \in 1..MaxNodes}

RECURSIVE DBTermsOfSize(_)
DBTermsOfSize(n) ==
    IF n <= 0 THEN {}
    ELSE IF n = 1 THEN {DBVariable(k) : k \in 0..MaxNumber} \cup {DBFreeVariable(<<"x">>)}
    ELSE LET smaller == [k \in 1..(n - 1) |-> DBTermsOfSize(k)]
         IN  {DBAbstraction(r) : r \in smaller[n - 1]}
             \cup UNION {{DBApplication(f, a) : f \in smaller[k], a \in smaller[n - 1 - k]}
                         : k \in 1..(n - 2)}

DBTerms == UNION {DBTermsOfSize(n) : n \in 1..MaxDBNodes}

(***************************************************************************)
(* The analyses and conversions as operations on a term.  The analyses     *)
(* borrow the term; a conversion takes it by value, so nothing is called   *)
(* on it afterwards (lterm then only records what was converted).          *)
(***************************************************************************)
Moved == applied \cap {"levels_from_lambda", "indices_from_lambda"} # {}

FreeVariablesOp ==
    /\ lterm # None
    /\ ~Moved
    /\ "free_variables" \notin applied
    /\ free' = free_variables(lterm)
    /\ applied' = applied \cup {"free_variables"}
    /\ UNCHANGED <<lexvars, parservars, lterm, bound, levels, indices, levels2, overflow_checks, previous, levels_free>>

BoundVariablesOp ==
    /\ lterm # None
    /\ ~Moved
    /\ "bound_variables" \notin applied
    /\ bound' = bound_variables(lterm)
    /\ applied' = applied \cup {"bound_variables"}
    /\ UNCHANGED <<lexvars, parservars, lterm, free, levels, indices, levels2, overflow_checks, previous, levels_free>>

\* DBLevels::from(lambda)
LevelsFromLambda ==
    /\ lterm # None
    /\ ~Moved
    /\ levels' = DBLevels_from_LambdaTerm(lterm)
    /\ applied' = applied \cup {"levels_from_lambda"}
    /\ UNCHANGED <<lexvars, parservars, lterm, free, bound, indices, levels2, overflow_checks, previous, levels_free>>

\* levels.0.free_variables(): borrows the DBLevels value, so before it is converted on
DBFreeVariablesOp ==
    /\ levels # None
    /\ "indices_from_levels" \notin applied
    /\ "db_free_variables" \notin applied
    /\ levels_free' = db_free_variables(levels)
    /\ applied' = applied \cup {"db_free_variables"}
    /\ UNCHANGED <<lexvars, parservars, lterm, free, bound, levels, indices, levels2,
                   overflow_checks, previous>>

\* DBIndices::from(lambda)
IndicesFromLambda ==
    /\ lterm # None
    /\ ~Moved
    /\ LET r == DBIndices_from_LambdaTerm(lterm)
       IN  /\ indices' = IF r = Panic THEN None ELSE r
           /\ applied' = applied \cup {"indices_from_lambda"}
                                 \cup (IF r = Panic THEN {"panic"} ELSE {})
    /\ UNCHANGED <<lexvars, parservars, lterm, free, bound, levels, levels2, overflow_checks, previous, levels_free>>

\* DBIndices::from(levels)
IndicesFromLevels ==
    /\ levels # None
    /\ indices = None
    /\ "panic" \notin applied
    /\ LET r == DBIndices_from_DBLevels(levels)
       IN  /\ indices' = IF r = Panic THEN None ELSE r
           /\ applied' = applied \cup {"indices_from_levels"}
                                 \cup (IF r = Panic THEN {"panic"} ELSE {})
    /\ UNCHANGED <<lexvars, parservars, lterm, free, bound, levels, levels2, overflow_checks, previous, levels_free>>

\* DBLevels::from(indices)
LevelsFromIndices ==
    /\ indices # None
    /\ levels2 = None
    /\ "panic" \notin applied
    /\ LET r == DBLevels_from_DBIndices(indices)
       IN  /\ levels2' = IF r = Panic THEN None ELSE r
           /\ applied' = applied \cup {"levels_from_indices"}
                                 \cup (IF r = Panic THEN {"panic"} ELSE {})
    /\ UNCHANGED <<lexvars, parservars, lterm, free, bound, levels, indices, overflow_checks, previous, levels_free>>

\* no text, no parser at work
IdleFrontEnd ==
    /\ code = <<>>
    /\ closed = TRUE
    /\ lexer = NewLexer
    /\ pulled = <<>>
    /\ paren_index = 0
    /\ stack = <<>>
    /\ ret = None
    /\ result = None

InitTerm ==
    /\ IdleFrontEnd
    /\ lterm \in LambdaTerms
    /\ applied = {}
    /\ free = {}
    /\ bound = {}
    /\ levels = None
    /\ indices = None
    /\ levels2 = None
    /\ overflow_checks \in BOOLEAN
    /\ previous = None
    /\ levels_free = {}

NextTerm ==
    \/ FreeVariablesOp
    \/ BoundVariablesOp
    \/ LevelsFromLambda
    \/ DBFreeVariablesOp
    \/ IndicesFromLambda
    \/ IndicesFromLevels
    \/ LevelsFromIndices

SpecTerm == InitTerm /\ [][NextTerm]_vars

InitDB ==
    /\ IdleFrontEnd
    /\ lterm = None
    /\ applied = {}
    /\ free = {}
    /\ bound = {}
    /\ levels \in DBTerms
    /\ indices = None
    /\ levels2 = None
    /\ overflow_checks \in BOOLEAN
    /\ previous = None
    /\ levels_free = {}

NextDB ==
    \/ IndicesFromLevels
    \/ LevelsFromIndices

SpecDB == InitDB /\ [][NextDB]_vars

(***************************************************************************)
(* The parser on a text over the token spellings, revealed piece by piece. *)
(***************************************************************************)
IdleBackEnd ==
    /\ lterm = None
    /\ applied = {}
    /\ free = {}
    /\ bound = {}
    /\ levels = None
    /\ indices = None
    /\ levels2 = None
    /\ overflow_checks = TRUE
    /\ previous = None
    /\ levels_free = {}

NewParser ==
    /\ lexer = NewLexer
    /\ pulled = <<>>
    /\ paren_index = 0
    /\ stack = <<>>
    /\ ret = None
    /\ result = None

Init ==
    /\ code = <<>>
    /\ closed = FALSE
    /\ NewParser
    /\ IdleBackEnd

ParserStep ==
    \/ ParseCall
    \/ TermStart
    \/ TermResume
    \/ TermLoop
    \/ AbstractionStart
    \/ AbstractionDot
    \/ AbstractionResume
    \/ ParseReturn

Next ==
    \/ ParserStep
    \/ Feed
    \/ Close
    \/ Render
    \/ StripEndMarkers

Spec == Init /\ [][Next]_vars

(***************************************************************************)
(* The parser on every well-formed text of at most MaxWFTokens tokens:     *)
(*   term ::= identifier | lambda identifier dot term | term term         *)
(*          | '(' term ')'                                                 *)
(***************************************************************************)
RECURSIVE WellFormedOfLen(_)
WellFormedOfLen(n) ==
    IF n <= 0 THEN {}
    ELSE LET shorter == [k \in 1..(n - 1) |-> WellFormedOfLen(k)]
         IN  (IF n = 1 THEN {<<id>> : id \in PieceIdentifiers} ELSE {})
             \cup (IF n >= 4
                   THEN {<<Lambda, id, Dot>> \o t : id \in PieceIdentifiers, t \in shorter[n - 3]}
                   ELSE {})
             \cup (IF n >= 3 THEN {<<LParen>> \o t \o <<RParen>> : t \in shorter[n - 2]} ELSE {})
             \cup UNION {{t1 \o t2 : t1 \in shorter[k], t2 \in shorter[n - k]} : k \in 1..(n - 1)}

WellFormed == UNION {WellFormedOfLen(n) : n \in 1..MaxWFTokens}

InitWF ==
    /\ code \in {Spell(tokens) : tokens \in WellFormed}
    /\ closed = TRUE
    /\ NewParser
    /\ IdleBackEnd

NextWF ==
    \/ ParserStep
    \/ Render

SpecWF == InitWF /\ [][NextWF]_vars

(***************************************************************************)
(* The parser, running on, on every token sequence of at most              *)
(* MaxFairTokens tokens, well-formed or not: the program does not stop     *)
(* between two steps of parse.                                             *)
(***************************************************************************)
TokenSequences == UNION {[1..n -> PieceTokens] : n \in 0..MaxFairTokens}

InitFair ==
    /\ code \in {Spell(tokens) : tokens \in TokenSequences}
    /\ closed = TRUE
    /\ NewParser
    /\ IdleBackEnd

NextFair == ParserStep

SpecFair == InitFair /\ [][NextFair]_vars /\ WF_vars(NextFair)

(***************************************************************************)
(* The lexer alone on every text of at most MaxTextLen characters.         *)
(***************************************************************************)
LexChars == {"(", ")", "lam", "\\", ".", "NUL", "a", "_", " "}

Texts == UNION {[1..n -> LexChars] : n \in 0..MaxTextLen}

InitLex ==
    /\ code \in Texts
    /\ closed = TRUE
    /\ NewParser
    /\ IdleBackEnd

NextLex == LexerNext

SpecLex == InitLex /\ [][NextLex]_vars

(***************************************************************************)
(* Reference definitions the claims are stated against.  They follow the   *)
(* path from the root to each occurrence: binders is the sequence of bound *)
(* names of the enclosing Abstractions, outermost first.                   *)
(***************************************************************************)
RECURSIVE NamesFreeUnder(_, _)
NamesFreeUnder(term, binders) ==
    CASE term.tag = "Variable" ->
            IF \E i \in 1..Len(binders) : binders[i] = term.id THEN {} ELSE {term.id}
      [] term.tag = "Application" ->
            NamesFreeUnder(term.function, binders) \cup NamesFreeUnder(term.argument, binders)
      [] term.tag = "Abstraction" ->
            NamesFreeUnder(term.return_term, Append(binders, term.bound_variable))

\* position (from the root, outermost = 1) of the innermost binder of id, 0 if none
InnermostBinder(binders, id) ==
    LET hits == {i \in 1..Len(binders) : binders[i] = id}
    IN  IF hits = {} THEN 0 ELSE CHOOSE i \in hits : \A j \in hits : j <= i

RECURSIVE LevelsUnder(_, _)
LevelsUnder(term, binders) ==
    CASE term.tag = "Variable" ->
            IF InnermostBinder(binders, term.id) = 0
            THEN DBFreeVariable(term.id)
            ELSE DBVariable(InnermostBinder(binders, term.id))
      [] term.tag = "Application" ->
            DBApplication(LevelsUnder(term.function, binders),
                          LevelsUnder(term.argument, binders))
      [] term.tag = "Abstraction" ->
            DBAbstraction(LevelsUnder(term.return_term, Append(binders, term.bound_variable)))

RECURSIVE IndicesUnder(_, _)
IndicesUnder(term, binders) ==
    CASE term.tag = "Variable" ->
            IF InnermostBinder(binders, term.id) = 0
            THEN DBFreeVariable(term.id)
            ELSE \* abstractions strictly between the occurrence and its binder, plus one
                 DBVariable(Cardinality((InnermostBinder(binders, term.id) + 1)..Len(binders)) + 1)
      [] term.tag = "Application" ->
            DBApplication(IndicesUnder(term.function, binders),
                          IndicesUnder(term.argument, binders))
      [] term.tag = "Abstraction" ->
            DBAbstraction(IndicesUnder(term.return_term, Append(binders, term.bound_variable)))

(***************************************************************************)
(* C1: for every LambdaTerm t, free_variables(t) is exactly the set of     *)
(* names with a Variable occurrence that no Abstraction of that name       *)
(* encloses.  (Refuted by x (\x. x): the removal at the Abstraction acts   *)
(* on the one shared set.)                                                 *)
(***************************************************************************)
C1_FreeVariablesExact ==
    "free_variables" \in applied => free = NamesFreeUnder(lterm, <<>>)

(***************************************************************************)
(* C5: DBLevels::from(t) has the shape of t; an occurrence of n becomes    *)
(* Variable(d), d the number of abstractions from the root down to and     *)
(* including the innermost enclosing binder of n, or FreeVariable(n) when  *)
(* none binds it, also after leaving an inner Abstraction that rebinds n.  *)
(***************************************************************************)
C5_LevelsOfLambda ==
    (lterm # None /\ levels # None) => levels = LevelsUnder(lterm, <<>>)

\* \x. (\x. x) x has become \ (\ 2) 1
C5_Witness ==
    /\ lterm = Abstraction(<<"x">>, Application(Abstraction(<<"x">>, Variable(<<"x">>)), Variable(<<"x">>)))
    /\ levels = DBAbstraction(DBApplication(DBAbstraction(DBVariable(2)), DBVariable(1)))

(***************************************************************************)
(* C6: DBIndices::from(t), computed through DBLevels, gives each bound     *)
(* occurrence the number of abstractions strictly between it and its       *)
(* binder, plus one: \x. \y. x y becomes \ \ 2 1.                          *)
(***************************************************************************)
C6_IndicesOfLambda ==
    (lterm # None /\ ("indices_from_lambda" \in applied \/ "indices_from_levels" \in applied))
        => indices = IndicesUnder(lterm, <<>>)

C6_Witness ==
    /\ lterm = Abstraction(<<"x">>, Abstraction(<<"y">>, Application(Variable(<<"x">>), Variable(<<"y">>))))
    /\ "indices_from_lambda" \in applied
    /\ indices = DBAbstraction(DBAbstraction(DBApplication(DBVariable(2), DBVariable(1))))

(***************************************************************************)
(* C7: for every DBLevels value, whatever numbers its Variables store,     *)
(* DBLevels -> DBIndices -> DBLevels yields the value it started from.     *)
(* (Refuted with overflow checks: a number outside 1..depth makes one of   *)
(* the two subtractions panic.)                                            *)
(***************************************************************************)
C7_LevelsRoundTrip ==
    (lterm = None /\ ("levels_from_indices" \in applied \/ "panic" \in applied))
        => levels2 = levels

(***************************************************************************)
(* The term a well-formed token sequence denotes: juxtaposition is         *)
(* application and associates to the left, an abstraction reaches as far   *)
(* to the right as it can, parentheses group.                              *)
(***************************************************************************)
X == <<"x">>

UY == <<"_", "y">>

\* open parentheses not yet closed after the first k tokens
Depth(tokens, k) ==
    Cardinality({i \in 1..k : tokens[i].tag = "LParen"})
        - Cardinality({i \in 1..k : tokens[i].tag = "RParen"})

\* tokens[1] is '(': the position of the ')' that closes it
MatchingClose(tokens) ==
    CHOOSE m \in 1..Len(tokens) :
        Depth(tokens, m) = 0 /\ \A j \in 1..(m - 1) : Depth(tokens, j) > 0

RECURSIVE Meaning(_)
\* the first of the juxtaposed terms of tokens, and the tokens after it
AtomAt(tokens) ==
    CASE tokens[1].tag = "Lambda" ->
            [term |-> Abstraction(tokens[2].id, Meaning(SubSeq(tokens, 4, Len(tokens)))),
             rest |-> <<>>]
      [] tokens[1].tag = "LParen" ->
            [term |-> Meaning(SubSeq(tokens, 2, MatchingClose(tokens) - 1)),
             rest |-> SubSeq(tokens, MatchingClose(tokens) + 1, Len(tokens))]
      [] tokens[1].tag = "Identifier" ->
            [term |-> Variable(tokens[1].id), rest |-> Tail(tokens)]

RECURSIVE AtomTerms(_)
AtomTerms(tokens) ==
    IF tokens = <<>> THEN <<>>
    ELSE <<AtomAt(tokens).term>> \o AtomTerms(AtomAt(tokens).rest)

RECURSIVE LeftFold(_)
LeftFold(terms) ==
    IF Len(terms) = 1 THEN terms[1]
    ELSE Application(LeftFold(SubSeq(terms, 1, Len(terms) - 1)), terms[Len(terms)])

Meaning(tokens) == LeftFold(AtomTerms(tokens))

\* one of the juxtaposed terms of tokens is an abstraction without parentheses
RECURSIVE HasBareAbstraction(_)
HasBareAbstraction(tokens) ==
    /\ tokens # <<>>
    /\ \/ tokens[1].tag = "Lambda"
       \/ HasBareAbstraction(AtomAt(tokens).rest)

\* the Abstraction nodes of a term, in the order of their binders in the text
RECURSIVE AbstractionsOf(_)
AbstractionsOf(term) ==
    CASE term.tag = "Variable" -> <<>>
      [] term.tag = "Application" ->
            AbstractionsOf(term.function) \o AbstractionsOf(term.argument)
      [] term.tag = "Abstraction" -> <<term>> \o AbstractionsOf(term.return_term)

LambdaPositions(tokens) == {i \in 1..Len(tokens) : tokens[i].tag = "Lambda"}

\* the position of the k-th lambda marker
KthLambda(tokens, k) ==
    CHOOSE i \in LambdaPositions(tokens) :
        Cardinality({j \in LambdaPositions(tokens) : j <= i}) = k

\* the last token before the first ')' after position i that closes a parenthesis
\* opened before i; the last token when there is none
BodyEnd(tokens, i) ==
    LET closers == {j \in (i + 1)..Len(tokens) :
                        tokens[j].tag = "RParen" /\ Depth(tokens, j) < Depth(tokens, i)}
    IN  IF closers = {} THEN Len(tokens)
        ELSE (CHOOSE j \in closers : \A c \in closers : j <= c) - 1

FirstParse == "render" \notin applied

(***************************************************************************)
(* C2: for every text whose tokens form a well-formed term, parse returns  *)
(* Ok, and paren_index is 0 when it returns.                               *)
(***************************************************************************)
C2_WellFormedParses ==
    (FirstParse /\ result # None) => (result.tag = "Ok" /\ paren_index = 0)

\* ((x)) x has been parsed
C2_Witness ==
    /\ FirstParse
    /\ Tokens(code) = <<LParen, LParen, Identifier(X), RParen, RParen, Identifier(X)>>
    /\ result = Ok(Application(Variable(X), Variable(X)))
    /\ paren_index = 0

(***************************************************************************)
(* C3: parse returns Ok only when paren_index is 0 after the top-level     *)
(* parse_term has returned; when that call succeeds with paren_index = n   *)
(* and n is not 0, parse returns UnmatchedParens(n) and no term.           *)
(***************************************************************************)
C3_OkOnlyAtDepthZero ==
    result # None =>
        /\ result.tag = "Ok" => (paren_index = 0 /\ ret = result)
        /\ (ret.tag = "Ok" /\ paren_index # 0) => result = Err(UnmatchedParens(paren_index))

\* ( x : the top-level parse_term returned x at depth 1
C3_Witness ==
    /\ ret = Ok(Variable(X))
    /\ paren_index = 1
    /\ result = Err(UnmatchedParens(1))

(***************************************************************************)
(* C4: round trip.  The text rendered from a term that parse returned is   *)
(* lexed and parsed to Ok of a structurally equal term.                    *)
(***************************************************************************)
C4_RoundTrip ==
    ("render" \in applied /\ result # None) => result = Ok(lterm)

\* (\x. x) _y rendered and parsed again
C4_Witness ==
    /\ "render" \in applied
    /\ lterm = Application(Abstraction(X, Variable(X)), Variable(UY))
    /\ code = <<"(", "lam", "x", ".", " ", "x", ")", " ", "_", "y">>
    /\ result = Ok(lterm)

(***************************************************************************)
(* C8: every Identifier that Lexer::next emits is a maximal run of         *)
(* alphanumeric-or-underscore characters of the text: no such character    *)
(* stands right before or right after the run.  (Refuted by a_b: the       *)
(* lookahead that ends an identifier does not accept the underscore.)      *)
(***************************************************************************)
IdentifierChar(ch) == (is_alphanumeric(ch) /\ ch # "lam") \/ ch = "_"

C8_IdentifiersAreMaximalRuns ==
    \A i \in 1..Len(pulled) :
        pulled[i].token.tag = "Identifier" =>
            LET last == pulled[i].pos
                first == last - Len(pulled[i].token.id) + 1
            IN  /\ first >= 1
                /\ SubSeq(code, first, last) = pulled[i].token.id
                /\ \A k \in first..last : IdentifierChar(code[k])
                /\ first > 1 => ~IdentifierChar(code[first - 1])
                /\ last < Len(code) => ~IdentifierChar(code[last + 1])

(***************************************************************************)
(* C9: application associates to the left.  n >= 2 juxtaposed atoms        *)
(* a1 ... an (identifiers or parenthesized terms) parse to                 *)
(* Application(...Application(Application(a1, a2), a3)..., an).            *)
(***************************************************************************)
C9_LeftAssociative ==
    (result # None /\ result.tag = "Ok"
        /\ ~HasBareAbstraction(Tokens(code)) /\ Len(AtomTerms(Tokens(code))) >= 2)
    => LET atoms == AtomTerms(Tokens(code))
           n == Len(atoms)
       IN  /\ result.term.tag = "Application"
           /\ result.term.argument = atoms[n]
           /\ result.term.function = LeftFold(SubSeq(atoms, 1, n - 1))

\* x _y x has been parsed
C9_Witness ==
    /\ FirstParse
    /\ Tokens(code) = <<Identifier(X), Identifier(UY), Identifier(X)>>
    /\ result = Ok(Application(Application(Variable(X), Variable(UY)), Variable(X)))

(***************************************************************************)
(* C10: the body of every parsed Abstraction is the term of all tokens     *)
(* after its dot up to, and not including, the first ')' that closes a     *)
(* parenthesis opened before the binder, or up to the end of the text.     *)
(***************************************************************************)
C10_BodyExtent ==
    (result # None /\ result.tag = "Ok")
    => LET tokens == Tokens(code)
           abstractions == AbstractionsOf(result.term)
       IN  /\ Len(abstractions) = Cardinality(LambdaPositions(tokens))
           /\ \A k \in 1..Len(abstractions) :
                LET i == KthLambda(tokens, k)
                IN  /\ abstractions[k].bound_variable = tokens[i + 1].id
                    /\ abstractions[k].return_term
                          = Meaning(SubSeq(tokens, i + 3, BodyEnd(tokens, i)))

\* (\x. x _y) x has been parsed: the body is x _y, and the x after ')' is applied to
\* the abstraction
C10_Witness ==
    /\ FirstParse
    /\ Tokens(code) = <<LParen, Lambda, Identifier(X), Dot, Identifier(X), Identifier(UY),
                         RParen, Identifier(X)>>
    /\ result = Ok(Application(
                      Abstraction(X, Application(Variable(X), Variable(UY))),
                      Variable(X)))

(***************************************************************************)
(* Texts that are a well-formed term with one '(' put in: the positions of *)
(* a '(' whose removal leaves a well-formed token sequence.                *)
(***************************************************************************)
RemoveAt(tokens, i) == SubSeq(tokens, 1, i - 1) \o SubSeq(tokens, i + 1, Len(tokens))

UnmatchedLParens(tokens) ==
    {i \in 1..Len(tokens) : tokens[i] = LParen /\ RemoveAt(tokens, i) \in WellFormed}

\* what parse makes of the text with the unmatched '(' at position i
UnmatchedLParenError(tokens, i) ==
    IF i > 1 /\ tokens[i - 1] = Lambda THEN ExpectedIdentifierGot(LParen)
    ELSE IF i = Len(tokens) THEN PrematureEnd
    ELSE IF tokens[i + 1] = Dot THEN ExpectedGot(Dot, LParen)
    ELSE IF tokens[i + 1] = RParen THEN Unexpected(RParen)
    ELSE UnmatchedParens(1)

Returned == FirstParse /\ closed /\ result # None

FollowingNext == lexer_next(code, lexer.pos, lexer.buffer).token

(***************************************************************************)
(* C12 as stated: when parse returns, with Ok or with any error, the lexer *)
(* is exhausted: a following Lexer::next returns None.  (Refuted by ) x :  *)
(* parse returns Unexpected(RParen) and the x is never read.)              *)
(***************************************************************************)
C12_LexerConsumed ==
    Returned => FollowingNext = None

(***************************************************************************)
(* C12 amended: when parse returns Ok, or UnmatchedParens(n) with n > 0,   *)
(* the lexer is exhausted: a following Lexer::next returns None.  (With    *)
(* any other error, tokens after the offending one may be left unread.)    *)
(***************************************************************************)
C12_LexerConsumedOnOk ==
    (Returned /\ (result.tag = "Ok" \/ (result.err.kind = "UnmatchedParens" /\ paren_index > 0)))
        => FollowingNext = None

\* (x) _y has been parsed to the end of the text
C12_Witness ==
    /\ Returned
    /\ Tokens(code) = <<LParen, Identifier(X), RParen, Identifier(UY)>>
    /\ result = Ok(Application(Variable(X), Variable(UY)))
    /\ lexer.pos = Len(code)
    /\ FollowingNext = None

\* the tokens pulled so far, in the order of the calls
RECURSIVE TokensIn(_)
TokensIn(calls) ==
    IF calls = <<>> THEN <<>>
    ELSE (IF Head(calls).token = None THEN <<>> ELSE <<Head(calls).token>>)
         \o TokensIn(Tail(calls))

\* every call of Lexer::next so far has moved on in the text: the tokens pulled are
\* the first tokens of the text, each pulled once
PulledOnce ==
    /\ \A i, j \in 1..Len(pulled) :
          (i < j /\ pulled[j].token # None) => pulled[i].pos < pulled[j].pos
    /\ LET tokens == TokensIn(pulled)
       IN  /\ Len(tokens) <= Len(Tokens(code))
           /\ tokens = SubSeq(Tokens(code), 1, Len(tokens))

\* a step at the start of a call or at the head of the loop
AtCallOrIteration == stack # <<>> /\ Top.at \in {"start", "dot", "loop"}

PullsOrReturns ==
    AtCallOrIteration =>
        \/ Len(stack') < Len(stack)
        \/ /\ Len(pulled') = Len(pulled) + 1
           /\ pulled'[Len(pulled')].token # None

(***************************************************************************)
(* C13: on every finite token sequence, well-formed or not, parse          *)
(* eventually returns; each token is pulled from the lexer at most once;   *)
(* and every call and every loop iteration of parse_term and               *)
(* parse_abstraction either pulls a token or returns.                      *)
(***************************************************************************)
C13_ParseTerminates ==
    /\ <>(result # None)
    /\ []PulledOnce
    /\ [][PullsOrReturns]_vars

\* ( . : parse has returned Unexpected(Dot) after two calls that pulled one token each
C13_Witness ==
    /\ Tokens(code) = <<LParen, Dot, Identifier(X)>>
    /\ TokensIn(pulled) = <<LParen, Dot>>
    /\ result = Err(Unexpected(Dot))

\* the step stays with the parser at work: no new Parser is made for another text
SameParser == applied

\* a call of parse_term or parse_abstraction has produced an error
Failed == ret # None /\ ret.tag = "Err"

(***************************************************************************)
(* C14: fail fast.  Once a step of parse_term or parse_abstraction has     *)
(* produced an error, no token is pulled, paren_index does not change, the *)
(* error is handed on unchanged, and what parse returns is that error:     *)
(* not a later one, not UnmatchedParens, not a term.                       *)
(***************************************************************************)
C14_FailFast ==
    [][(Failed /\ SameParser' = SameParser) =>
            /\ pulled' = pulled
            /\ lexer' = lexer
            /\ paren_index' = paren_index
            /\ ret' = ret
            /\ Len(stack') <= Len(stack)
            /\ result' # result => result' = ret]_vars

\* ( ( . : Unexpected(Dot) two calls deep has come back as the result, with
\* paren_index still 2
C14_Witness ==
    /\ TokensIn(pulled) = <<LParen, LParen, Dot>>
    /\ paren_index = 2
    /\ stack = <<>>
    /\ ret = Err(Unexpected(Dot))
    /\ result = ret

\* the nodes of a term
RECURSIVE Subterms(_)
Subterms(term) ==
    {term} \cup
    CASE term.tag = "Variable" -> {}
      [] term.tag = "Application" -> Subterms(term.function) \cup Subterms(term.argument)
      [] term.tag = "Abstraction" -> Subterms(term.return_term)

BinderNames(term) ==
    {node.bound_variable : node \in {n \in Subterms(term) : n.tag = "Abstraction"}}

(***************************************************************************)
(* C15: for every LambdaTerm t, bound_variables(t) is exactly the set of   *)
(* names that some Abstraction node of t binds, whether or not the body of *)
(* that Abstraction mentions the name.                                     *)
(***************************************************************************)
C15_BoundVariablesExact ==
    "bound_variables" \in applied => bound = BinderNames(lterm)

\* \x. \y. y: x is bound though no body mentions it
C15_Witness ==
    /\ lterm = Abstraction(X, Abstraction(<<"y">>, Variable(<<"y">>)))
    /\ "bound_variables" \in applied
    /\ bound = {X, <<"y">>}

\* '(' tokens minus ')' tokens
RECURSIVE Balance(_)
Balance(tokens) ==
    IF tokens = <<>> THEN 0
    ELSE Balance(Tail(tokens)) + (CASE Head(tokens) = LParen -> 1
                                    [] Head(tokens) = RParen -> -1
                                    [] OTHER -> 0)

\* the last call of Lexer::next found the lexer exhausted
PulledNone == pulled # <<>> /\ pulled[Len(pulled)].token = None

(***************************************************************************)
(* C16: in parse_abstraction, after the lambda marker: a token that is not *)
(* an Identifier gives ExpectedIdentifierGot(that token); after the        *)
(* identifier, a token that is not Dot gives ExpectedGot(Dot, that token); *)
(* an exhausted lexer at either place gives PrematureEnd.  In each case    *)
(* parse returns that error, nothing more is pulled (no body is parsed),   *)
(* and paren_index is what it was when the lambda marker was read.         *)
(***************************************************************************)
C16_AbstractionErrors ==
    result # None =>
        LET tokens == TokensIn(pulled)
            n == Len(tokens)
        IN  \A i \in 1..n :
                tokens[i] = Lambda =>
                    /\ (i < n /\ tokens[i + 1].tag # "Identifier") =>
                          /\ n = i + 1 /\ ~PulledNone
                          /\ result = Err(ExpectedIdentifierGot(tokens[i + 1]))
                          /\ paren_index = Balance(SubSeq(tokens, 1, i))
                    /\ (i + 1 < n /\ tokens[i + 1].tag = "Identifier" /\ tokens[i + 2] # Dot) =>
                          /\ n = i + 2 /\ ~PulledNone
                          /\ result = Err(ExpectedGot(Dot, tokens[i + 2]))
                          /\ paren_index = Balance(SubSeq(tokens, 1, i))
                    /\ (PulledNone /\ (i = n \/ (i + 1 = n /\ tokens[n].tag = "Identifier"))) =>
                          /\ result = Err(PrematureEnd)
                          /\ paren_index = Balance(SubSeq(tokens, 1, i))

\* ( \ x x : the second x stands where the dot is due
C16_Witness ==
    /\ TokensIn(pulled) = <<LParen, Lambda, Identifier(X), Identifier(X)>>
    /\ result = Err(ExpectedGot(Dot, Identifier(X)))
    /\ paren_index = 1

(***************************************************************************)
(* C17: an end marker read in the loop of parse_term leaves the term built *)
(* so far and paren_index as they are, and parsing goes on with the next   *)
(* token: the text without its end markers, when all of them stand at such *)
(* places, gives the same result of parse.  An end marker read where a     *)
(* term must start (first, after '(' or after the dot) gives PrematureEnd. *)
(***************************************************************************)
C17_EndMarker ==
    /\ [][(/\ stack # <<>> /\ Top.at = "loop"
           /\ Len(pulled') = Len(pulled) + 1
           /\ pulled'[Len(pulled')].token = Eof)
          => (stack' = stack /\ paren_index' = paren_index /\ ret' = ret
              /\ result' = result)]_vars
    /\ []((("strip" \in applied) /\ result # None) => result = previous)
    /\ [](result # None =>
            LET tokens == TokensIn(pulled)
            IN  \A i \in EndMarkers(tokens) :
                    (IF i = 1 THEN TRUE ELSE tokens[i - 1] \in {LParen, Dot}) =>
                        (i = Len(tokens) /\ result = Err(PrematureEnd)))

\* x NUL (_y) NUL parsed, and parsed again as x (_y), with the same result
C17_Witness ==
    /\ "strip" \in applied
    /\ code = Spell(<<Identifier(X), LParen, Identifier(UY), RParen>>)
    /\ previous = Ok(Application(Variable(X), Variable(UY)))
    /\ result = previous

(***************************************************************************)
(* C18: the lexer is fused: after Lexer::next has returned None, every     *)
(* later call returns None.  An Eof token comes only from a null character *)
(* of the text, never from its end.  Whenever next has returned, the       *)
(* identifier buffer is empty: at the end of the text no characters of an  *)
(* identifier are left in it.                                              *)
(***************************************************************************)
C18_FusedLexer ==
    /\ \A i, j \in 1..Len(pulled) :
          (i < j /\ pulled[i].token = None) => pulled[j].token = None
    /\ \A i \in 1..Len(pulled) :
          pulled[i].token = Eof => (pulled[i].pos >= 1 /\ code[pulled[i].pos] = "NUL")
    /\ lexer.buffer = <<>>
    /\ \A i \in 1..Len(pulled) :
          pulled[i].token = None => (pulled[i].pos = Len(code) /\ TokensIn(pulled) = Tokens(code))

\* a a NUL _ : two identifiers with the end marker between them, then None twice
C18_Witness ==
    /\ code = <<"a", "a", "NUL", "_">>
    /\ Len(pulled) = 5
    /\ TokensIn(pulled) = <<Identifier(<<"a", "a">>), Eof, Identifier(<<"_">>)>>
    /\ pulled[4].token = None
    /\ pulled[5].token = None
    /\ lexer.buffer = <<>>

IsParenOutOfBounds(r) ==
    IF r = None THEN FALSE
    ELSE IF r.tag # "Err" THEN FALSE
    ELSE r.err.kind = "ParenOutOfBounds"

(***************************************************************************)
(* C19: at every call of check_bounds, on entry to parse_term and to       *)
(* parse_abstraction, paren_index equals the bound passed in; the check    *)
(* never fails, and neither a call nor parse returns ParenOutOfBounds.     *)
(***************************************************************************)
C19_CheckBoundsNeverFails ==
    /\ (stack # <<>> /\ Top.at = "start") =>
          /\ paren_index = Top.paren_index_bound
          /\ check_bounds(Top.paren_index_bound) = Ok(None)
    /\ ~IsParenOutOfBounds(ret)
    /\ ~IsParenOutOfBounds(result)

\* ( ( \ : parse_abstraction entered two parentheses deep
C19_Witness ==
    /\ TokensIn(pulled) = <<LParen, LParen, Lambda>>
    /\ Len(stack) = 4
    /\ Top.fn = "parse_abstraction"
    /\ Top.at = "start"
    /\ Top.paren_index_bound = 2
    /\ paren_index = 2

(***************************************************************************)
(* C20: paren_index is never below -1.  parse returns Ok only if the lexer *)
(* is exhausted, the tokens of the text hold as many ')' as '(', and no    *)
(* prefix of them holds more ')' than '('.                                 *)
(***************************************************************************)
C20_ParenIndexAndBalance ==
    /\ paren_index >= -1
    /\ (result # None /\ result.tag = "Ok") =>
          LET tokens == Tokens(code)
          IN  /\ closed
              /\ FollowingNext = None
              /\ TokensIn(pulled) = tokens
              /\ Balance(tokens) = 0
              /\ \A k \in 0..Len(tokens) : Balance(SubSeq(tokens, 1, k)) >= 0

\* ((x) _y) has been parsed
C20_Witness ==
    /\ FirstParse
    /\ Tokens(code) = <<LParen, LParen, Identifier(X), RParen, Identifier(UY), RParen>>
    /\ result = Ok(Application(Variable(X), Variable(UY)))
    /\ paren_index = 0

\* every Variable(n) of a DBTerm has 1 <= n <= D, D the number of abstractions over it
RECURSIVE NumbersWithinDepth(_, _)
NumbersWithinDepth(term, depth) ==
    CASE term.tag = "Variable" -> 1 <= term.n /\ term.n <= depth
      [] term.tag = "FreeVariable" -> TRUE
      [] term.tag = "Application" ->
            NumbersWithinDepth(term.function, depth) /\ NumbersWithinDepth(term.argument, depth)
      [] term.tag = "Abstraction" -> NumbersWithinDepth(term.return_term, depth + 1)

ConvertedToIndices ==
    lterm # None /\ applied \cap {"indices_from_lambda", "indices_from_levels"} # {}

(***************************************************************************)
(* C21: for every LambdaTerm t, each Variable(n) of DBLevels::from(t)      *)
(* under D abstractions has 1 <= n <= D; so abstraction_depth - level + 1  *)
(* never underflows on the way to DBIndices (no panic, whatever the build  *)
(* profile), and every index of DBIndices::from(t) lies in 1..D as well.   *)
(***************************************************************************)
C21_NumbersWithinDepth ==
    /\ (lterm # None /\ levels # None) => NumbersWithinDepth(levels, 0)
    /\ ConvertedToIndices =>
          /\ indices # None
          /\ NumbersWithinDepth(indices, 0)

\* \x. \y. x with overflow checks: levels \ \ 1 have become indices \ \ 2
C21_Witness ==
    /\ overflow_checks
    /\ lterm = Abstraction(X, Abstraction(<<"y">>, Variable(X)))
    /\ levels = DBAbstraction(DBAbstraction(DBVariable(1)))
    /\ "indices_from_levels" \in applied
    /\ indices = DBAbstraction(DBAbstraction(DBVariable(2)))

(***************************************************************************)
(* C22: the two free-variable analyses agree: for every LambdaTerm t,      *)
(* LambdaTerm::free_variables(t) equals DBTerm::free_variables of the term *)
(* inside DBLevels::from(t).  (Refuted by x (\x. x): the analysis of the   *)
(* named term loses the free x, the one of the De Bruijn term keeps it.)   *)
(***************************************************************************)
C22_FreeVariableAnalysesAgree ==
    (/\ lterm # None
     /\ "free_variables" \in applied
     /\ "levels_from_lambda" \in applied
     /\ "db_free_variables" \in applied)
    => free = levels_free

====
